---- MODULE Spec2Model ----
(***************************************************************************)
(* Retirement Architect (src/app.py): a Streamlit script that is re-run    *)
(* from the top on every widget interaction.  The model covers             *)
(*   - the persistence engine (save_to_file / load_from_file, the Save     *)
(*     Inputs and Reset buttons),                                          *)
(*   - the income calculations of section 4, and                           *)
(*   - the tax-building loop of section 7 (the bracket allocator).         *)
(*                                                                         *)
(* Money is modelled in whole dollars and percentages in whole percent.    *)
(* The script computes in Python floats; the input grid below is chosen    *)
(* so that every product base_salary * pct / 100 is a whole number, on     *)
(* which the float arithmetic of the script is exact.  The "Rate" display  *)
(* string of a line item (an f-string of the bracket's rate) is not        *)
(* carried: no property below reads it.                                    *)
(***************************************************************************)
EXTENDS Integers, Sequences, FiniteSets, TLC

VARIABLES
    file,                \* SAVE_FILE on disk: [exists, text]
    saved_data,          \* result of load_from_file() at the top of the last run
    session_state,       \* the keyed widget values of the browser session
    save_result,         \* what save_to_file returned in the last run, if called
    total_gross_income,  \* script global, section 4
    taxable_income,      \* script global, section 4
    building_data,       \* script global, section 7
    last_good,           \* history: mapping of the last successful save not followed by Reset
    proj_params,         \* projection simulator: arguments of the call in progress
    proj_series,         \* projection simulator: states produced so far
    proj_y,              \* projection simulator: loop index
    proj_pc              \* projection simulator: "idle", "loop" or "done"

vars == <<file, saved_data, session_state, save_result, total_gross_income,
          taxable_income, building_data, last_good,
          proj_params, proj_series, proj_y, proj_pc>>

app_vars == <<file, saved_data, session_state, save_result, total_gross_income,
              taxable_income, building_data, last_good>>

proj_vars == <<proj_params, proj_series, proj_y, proj_pc>>

----------------------------------------------------------------------------
(* Bounds of the model *)

\* base_salary ranges over 0, 90000, ..., MaxSalarySteps * 90000
MaxSalarySteps == 2

\* number of tokens of the JSON text that may reach the disk before a
\* failing write raises inside save_to_file
MaxPartial == 1

\* largest projection horizon
MaxHorizon == 3

----------------------------------------------------------------------------
(* Python builtins *)

min(a, b) == IF a <= b THEN a ELSE b

max(a, b) == IF a >= b THEN a ELSE b

----------------------------------------------------------------------------
(* Section 3: the sidebar inputs *)

\* keys of current_state, in the insertion order of the dict literal
KEYS == <<"t4_gross_other", "base_salary", "bonus_pct", "biweekly_pct",
          "employer_match", "lump_sum", "rrsp_room", "tfsa_room">>

KeySet == {KEYS[i] : i \in 1..Len(KEYS)}

\* the fallback of each saved_data.get(key, fallback)
DEFAULTS == [t4_gross_other |-> 0, base_salary |-> 180000, bonus_pct |-> 15,
             biweekly_pct |-> 6, employer_match |-> 4, lump_sum |-> 10000,
             rrsp_room |-> 146000, tfsa_room |-> 102000]

\* the values a user enters in each widget (the number inputs have no
\* min_value, so a negative amount can be entered)
InputDomain(k) ==
    CASE k = "t4_gross_other" -> {-5000, 0, 53891, 100000}
      [] k = "base_salary"    -> {n * 90000 : n \in 0..MaxSalarySteps}
      [] k = "bonus_pct"      -> {0, 15, 50}
      [] k = "biweekly_pct"   -> {0, 6}
      [] k = "employer_match" -> {0, 4}
      [] k = "lump_sum"       -> {-20000, 0, 10000, 53891, 300000}
      [] k = "rrsp_room"      -> {146000}
      [] k = "tfsa_room"      -> {102000}

\* a coarser grid of the same widgets, for the behaviours that also save,
\* reset and restart
SavedInputDomain(k) ==
    CASE k = "t4_gross_other" -> {0, 53891}
      [] k = "base_salary"    -> {n * 90000 : n \in 0..MaxSalarySteps}
      [] k = "bonus_pct"      -> {15}
      [] k = "biweekly_pct"   -> {6}
      [] k = "employer_match" -> {4}
      [] k = "lump_sum"       -> {-20000, 10000}
      [] k = "rrsp_room"      -> {146000}
      [] k = "tfsa_room"      -> {102000}

----------------------------------------------------------------------------
(* Section 4: calculations *)

bonus_amt(w) == (w.base_salary * w.bonus_pct) \div 100

calc_total_gross_income(w) == w.base_salary + bonus_amt(w) + w.t4_gross_other

annual_rrsp_periodic(w) ==
    (w.base_salary * (w.biweekly_pct + w.employer_match)) \div 100

total_rrsp_contributions(w) == annual_rrsp_periodic(w) + w.lump_sum

calc_taxable_income(w) == calc_total_gross_income(w) - total_rrsp_contributions(w)

----------------------------------------------------------------------------
(* Section 7: the tax building *)

\* the table with Floor 3 and Floor 4 entered in the wrong order
BRACKETS_misordered == <<
    [Floor |-> "Floor 1",   low |-> 0,      top |-> 53891,  rate |-> 1905],
    [Floor |-> "Floor 2",   low |-> 53891,  top |-> 58523,  rate |-> 2315],
    [Floor |-> "Floor 4",   low |-> 94907,  top |-> 117045, rate |-> 3148],
    [Floor |-> "Floor 3",   low |-> 58523,  top |-> 94907,  rate |-> 2965],
    [Floor |-> "Floor 5",   low |-> 117045, top |-> 181440, rate |-> 4497],
    [Floor |-> "Penthouse", low |-> 181440, top |-> 258482, rate |-> 4829] >>

\* rate in 1/10000
BRACKETS == <<
    [Floor |-> "Floor 1",   low |-> 0,      top |-> 53891,  rate |-> 1905],
    [Floor |-> "Floor 2",   low |-> 53891,  top |-> 58523,  rate |-> 2315],
    [Floor |-> "Floor 3",   low |-> 58523,  top |-> 94907,  rate |-> 2965],
    [Floor |-> "Floor 4",   low |-> 94907,  top |-> 117045, rate |-> 3148],
    [Floor |-> "Floor 5",   low |-> 117045, top |-> 181440, rate |-> 4497],
    [Floor |-> "Penthouse", low |-> 181440, top |-> 258482, rate |-> 4829] >>

total_in_bracket(b, gross) == min(gross, b.top) - b.low

\* the skip test written "< 0"
skip_bracket_strict(b, gross) == total_in_bracket(b, gross) < 0

\* if total_in_bracket <= 0: continue
skip_bracket(b, gross) == total_in_bracket(b, gross) <= 0

\* the taxed amount without its max(0, ...)
taxed_amt_unfloored(b, taxable) == min(b.top, taxable) - b.low

\* the taxed amount with the operands of the subtraction exchanged
taxed_amt_reversed(b, taxable) == max(0, b.low - min(b.top, taxable))

taxed_amt(b, taxable) == max(0, min(b.top, taxable) - b.low)

shielded_amt(b, gross, taxable) == total_in_bracket(b, gross) - taxed_amt(b, taxable)

line_item(b, amount, status) == [Floor |-> b.Floor, Amount |-> amount, Status |-> status]

emit_shielded(b, gross, taxable) ==
    IF shielded_amt(b, gross, taxable) > 0
    THEN <<line_item(b, shielded_amt(b, gross, taxable), "Shielded")>>
    ELSE <<>>

emit_taxed(b, taxable) ==
    IF taxed_amt(b, taxable) > 0
    THEN <<line_item(b, taxed_amt(b, taxable), "Taxed")>>
    ELSE <<>>

\* the two appends of one iteration in the other order
bracket_items_taxed_first(b, gross, taxable) ==
    IF skip_bracket(b, gross)
    THEN <<>>
    ELSE emit_taxed(b, taxable) \o emit_shielded(b, gross, taxable)

\* one iteration of the loop: the items it appends
bracket_items(b, gross, taxable) ==
    IF skip_bracket(b, gross)
    THEN <<>>
    ELSE emit_shielded(b, gross, taxable) \o emit_taxed(b, taxable)

RECURSIVE building_loop(_, _, _)
building_loop(n, gross, taxable) ==
    IF n = 0
    THEN <<>>
    ELSE building_loop(n - 1, gross, taxable) \o bracket_items(BRACKETS[n], gross, taxable)

build_building_data(gross, taxable) == building_loop(Len(BRACKETS), gross, taxable)

----------------------------------------------------------------------------
(* Section 1: the persistence engine.                                      *)
(* The text json.dump writes is a sequence of tokens: an opening brace,    *)
(* then for every key of the dict its quoted name and the decimal literal  *)
(* of its value, then a closing brace.                                     *)

Tok(t, s, neg, digits) == [t |-> t, s |-> s, neg |-> neg, digits |-> digits]

LBRACE == Tok("{", "", FALSE, <<>>)

RBRACE == Tok("}", "", FALSE, <<>>)

KeyTok(k) == Tok("key", k, FALSE, <<>>)

RECURSIVE Digits(_)
Digits(n) == IF n < 10 THEN <<n>> ELSE Append(Digits(n \div 10), n % 10)

\* the decimal literal of an integer
NumTok(v) == Tok("num", "", v < 0, Digits(IF v < 0 THEN -v ELSE v))

RECURSIVE DigitsValue(_)
DigitsValue(d) ==
    IF Len(d) = 0 THEN 0
    ELSE 10 * DigitsValue(SubSeq(d, 1, Len(d) - 1)) + d[Len(d)]

NumValue(tok) == IF tok.neg THEN -DigitsValue(tok.digits) ELSE DigitsValue(tok.digits)

RECURSIVE dump_items(_, _)
dump_items(data, n) ==
    IF n = 0
    THEN <<>>
    ELSE dump_items(data, n - 1) \o <<KeyTok(KEYS[n]), NumTok(data[KEYS[n]])>>

\* json.dump(data, f): the complete text
json_dump(data) == <<LBRACE>> \o dump_items(data, Len(KEYS)) \o <<RBRACE>>

\* does json.load accept the text
json_valid(text) ==
    /\ Len(text) >= 2
    /\ text[1] = LBRACE
    /\ text[Len(text)] = RBRACE
    /\ (Len(text) - 2) % 2 = 0
    /\ \A i \in 1..((Len(text) - 2) \div 2) :
          /\ text[2 * i].t = "key"
          /\ text[2 * i + 1].t = "num"
          /\ Len(text[2 * i + 1].digits) > 0

\* json.load(f) on an accepted text: the dict, a later pair of a repeated key winning
json_load(text) ==
    LET n == (Len(text) - 2) \div 2
        last(k) == CHOOSE i \in 1..n :
                      /\ text[2 * i].s = k
                      /\ \A j \in 1..n : text[2 * j].s = k => j <= i
    IN  [k \in {text[2 * i].s : i \in 1..n} |-> NumValue(text[2 * last(k) + 1])]

EmptyDict == [k \in {} |-> 0]

NoFile == [exists |-> FALSE, text |-> <<>>]

load_from_file(f) ==
    IF f.exists
    THEN IF json_valid(f.text) THEN json_load(f.text) ELSE EmptyDict
    ELSE EmptyDict

\* saved_data.get(k, fallback)
dict_get(d, k, fallback) == IF k \in DOMAIN d THEN d[k] ELSE fallback

\* save_to_file(data): the file and the return value of each way the call can end
\*   - open(SAVE_FILE, "w") raises: the file is untouched, False
\*   - open truncates the file, then the write raises after n tokens: False
\*   - the dump completes: True
save_outcomes(f, data) ==
    {[file |-> f, ret |-> FALSE]}
    \cup {[file |-> [exists |-> TRUE, text |-> SubSeq(json_dump(data), 1, n)], ret |-> FALSE] :
             n \in 0..MaxPartial}
    \cup {[file |-> [exists |-> TRUE, text |-> json_dump(data)], ret |-> TRUE]}

\* if os.path.exists(SAVE_FILE): os.remove(SAVE_FILE)
remove_file(f) == NoFile

----------------------------------------------------------------------------
(* The script, run from the top *)

\* sections 4 and 7 for the widget values w
Calculate(w) ==
    /\ total_gross_income' = calc_total_gross_income(w)
    /\ taxable_income' = calc_taxable_income(w)
    /\ building_data' = build_building_data(calc_total_gross_income(w), calc_taxable_income(w))

ProjIdle ==
    /\ proj_params = [startingBalanceA |-> 0, startingBalanceB |-> 0, growthPct |-> 0,
                      inflationPct |-> 0, horizonYears |-> 0, startAge |-> 0]
    /\ proj_series = <<>>
    /\ proj_y = 0
    /\ proj_pc = "idle"

\* first run of a fresh installation: no save file, every widget at its fallback
Init ==
    /\ file = NoFile
    /\ saved_data = EmptyDict
    /\ session_state = DEFAULTS
    /\ save_result = "none"
    /\ total_gross_income = calc_total_gross_income(DEFAULTS)
    /\ taxable_income = calc_taxable_income(DEFAULTS)
    /\ building_data = build_building_data(calc_total_gross_income(DEFAULTS),
                                           calc_taxable_income(DEFAULTS))
    /\ last_good = EmptyDict
    /\ ProjIdle

\* a new browser session: the widgets take value=saved_data.get(key, fallback)
AppStart ==
    /\ saved_data' = load_from_file(file)
    /\ session_state' = [k \in KeySet |-> dict_get(load_from_file(file), k, DEFAULTS[k])]
    /\ save_result' = "none"
    /\ Calculate(session_state')
    /\ UNCHANGED <<file, last_good>>
    /\ UNCHANGED proj_vars

\* the user sets widget k to v: the script re-runs with the keyed values
SetInputTo(k, v) ==
    /\ v # session_state[k]
    /\ saved_data' = load_from_file(file)
    /\ session_state' = [session_state EXCEPT ![k] = v]
    /\ save_result' = "none"
    /\ Calculate(session_state')
    /\ UNCHANGED <<file, last_good>>
    /\ UNCHANGED proj_vars

SetInput == \E k \in KeySet : \E v \in InputDomain(k) : SetInputTo(k, v)

SetSavedInput == \E k \in KeySet : \E v \in SavedInputDomain(k) : SetInputTo(k, v)

\* the Save Inputs button: the run loads, then calls save_to_file(current_state)
ClickSave ==
    \E o \in save_outcomes(file, session_state) :
        /\ saved_data' = load_from_file(file)
        /\ file' = o.file
        /\ save_result' = IF o.ret THEN "True" ELSE "False"
        /\ last_good' = IF o.ret THEN session_state ELSE last_good
        /\ Calculate(session_state)
        /\ UNCHANGED session_state
        /\ UNCHANGED proj_vars

\* the Reset button: remove the file, then st.rerun() runs the script again
ClickReset ==
    /\ file' = IF file.exists THEN remove_file(file) ELSE file
    /\ saved_data' = load_from_file(file')
    /\ save_result' = "none"
    /\ last_good' = EmptyDict
    /\ Calculate(session_state)
    /\ UNCHANGED session_state
    /\ UNCHANGED proj_vars

\* the whole application on the coarse grid
Next == AppStart \/ SetSavedInput \/ ClickSave \/ ClickReset

Spec == Init /\ [][Next]_vars

\* a session in which the user only edits the widgets, on the fine grid
NextInputs == AppStart \/ SetInput

SpecInputs == Init /\ [][NextInputs]_vars

----------------------------------------------------------------------------
(* The projection simulator, project(startingBalanceA, startingBalanceB,   *)
(* annualGrowthRate, annualInflationRate, horizonYears, startAge).  Rates  *)
(* are whole percent and balances whole dollars (quotients rounded down).  *)

ProjParams ==
    [startingBalanceA : {0, 100000}, startingBalanceB : {0, 50000},
     growthPct : {0, 7}, inflationPct : {0, 2},
     horizonYears : 0..MaxHorizon, startAge : {40}]

\* effectiveWithdrawalTaxRate, in percent
effectiveWithdrawalTaxPct == 25

compound(balance, growthPct) == (balance * (100 + growthPct)) \div 100

totalWealth(a, b) == (a * (100 - effectiveWithdrawalTaxPct)) \div 100 + b

\* wealth / (1 + inflationRate)^y, one year's deflation at a time
RECURSIVE purchasingPower(_, _, _)
purchasingPower(wealth, inflationPct, y) ==
    IF y = 0
    THEN wealth
    ELSE purchasingPower((wealth * 100) \div (100 + inflationPct), inflationPct, y - 1)

ProjectionState(p, y, a, b) ==
    [year |-> y, age |-> p.startAge + y, balanceA |-> a, balanceB |-> b,
     totalWealth |-> totalWealth(a, b),
     purchasingPower |-> purchasingPower(totalWealth(a, b), p.inflationPct, y)]

\* the year-0 state
initial_state(p) == ProjectionState(p, 0, p.startingBalanceA, p.startingBalanceB)

\* the loop stopping one year early
loop_continues_short(y, horizonYears) == y < horizonYears

\* for year y in 1..horizonYears
loop_continues(y, horizonYears) == y <= horizonYears

ProjectCall ==
    /\ proj_pc \in {"idle", "done"}
    /\ \E p \in ProjParams :
          /\ proj_params' = p
          /\ proj_series' = <<initial_state(p)>>
    /\ proj_y' = 1
    /\ proj_pc' = "loop"
    /\ UNCHANGED app_vars

ProjectYear ==
    /\ proj_pc = "loop"
    /\ loop_continues(proj_y, proj_params.horizonYears)
    /\ LET prev == proj_series[Len(proj_series)]
       IN  proj_series' = Append(proj_series,
               ProjectionState(proj_params, proj_y,
                               compound(prev.balanceA, proj_params.growthPct),
                               compound(prev.balanceB, proj_params.growthPct)))
    /\ proj_y' = proj_y + 1
    /\ UNCHANGED <<proj_params, proj_pc>>
    /\ UNCHANGED app_vars

ProjectReturn ==
    /\ proj_pc = "loop"
    /\ ~loop_continues(proj_y, proj_params.horizonYears)
    /\ proj_pc' = "done"
    /\ UNCHANGED <<proj_params, proj_series, proj_y>>
    /\ UNCHANGED app_vars

NextProj == ProjectCall \/ ProjectYear \/ ProjectReturn

SpecProj == Init /\ [][NextProj]_vars

----------------------------------------------------------------------------
(* Vocabulary of the properties *)

BracketIdx == 1..Len(BRACKETS)

\* the occupied width of bracket b: min(gross, upper) - lower
Occupied(b) ==
    (IF total_gross_income <= b.top THEN total_gross_income ELSE b.top) - b.low

\* the line items of building_data that carry the label of bracket b
ItemsOf(b) == SelectSeq(building_data, LAMBDA it : it.Floor = b.Floor)

Has(b, status) == \E i \in 1..Len(ItemsOf(b)) : ItemsOf(b)[i].Status = status

RECURSIVE SumAmounts(_)
SumAmounts(items) ==
    IF Len(items) = 0 THEN 0 ELSE items[1].Amount + SumAmounts(Tail(items))

TotalOf(items, status) == SumAmounts(SelectSeq(items, LAMBDA it : it.Status = status))

\* the taxed and shielded amounts as the contract words them: the taxed
\* amount clamped to [0, occupied], the shielded amount the rest
ContractTaxed(b) ==
    LET raw == (IF b.top <= taxable_income THEN b.top ELSE taxable_income) - b.low
        nonneg == IF raw < 0 THEN 0 ELSE raw
    IN  IF nonneg > Occupied(b) THEN Occupied(b) ELSE nonneg

ContractShielded(b) == Occupied(b) - ContractTaxed(b)

\* position in the bracket table of the bracket an item belongs to
FloorIdx(it) == CHOOSE i \in BracketIdx : BRACKETS[i].Floor = it.Floor

----------------------------------------------------------------------------
(* The bracket allocator *)

\* C1 (as claimed): for gross income >= 0 and any taxable income, the amounts
\* of the line items emitted for an occupied bracket sum exactly to its
\* occupied width min(gross, upper) - lower.
C1_Conservation ==
    total_gross_income >= 0 =>
        \A i \in BracketIdx :
            Occupied(BRACKETS[i]) > 0 =>
                SumAmounts(ItemsOf(BRACKETS[i])) = Occupied(BRACKETS[i])

\* C2 (as claimed): for every occupied bracket the computed taxed amount lies
\* in [0, occupied], the computed shielded amount is non-negative, and no
\* emitted Taxed amount exceeds the occupied width, taxable > gross included.
C2_Clamping ==
    \A i \in BracketIdx :
        Occupied(BRACKETS[i]) > 0 =>
            /\ taxed_amt(BRACKETS[i], taxable_income) >= 0
            /\ taxed_amt(BRACKETS[i], taxable_income) <= Occupied(BRACKETS[i])
            /\ shielded_amt(BRACKETS[i], total_gross_income, taxable_income) >= 0
            /\ \A n \in 1..Len(ItemsOf(BRACKETS[i])) :
                  ItemsOf(BRACKETS[i])[n].Status = "Taxed" =>
                      ItemsOf(BRACKETS[i])[n].Amount <= Occupied(BRACKETS[i])

\* C3 (as claimed): whenever taxable income >= gross income, every occupied
\* bracket has no Shielded item and its taxed amount equals its occupied width.
C3_NoShield ==
    taxable_income >= total_gross_income =>
        \A i \in BracketIdx :
            Occupied(BRACKETS[i]) > 0 =>
                /\ ~Has(BRACKETS[i], "Shielded")
                /\ TotalOf(ItemsOf(BRACKETS[i]), "Taxed") = Occupied(BRACKETS[i])
                /\ taxed_amt(BRACKETS[i], taxable_income) = Occupied(BRACKETS[i])

\* C4: whenever taxable income <= 0, every occupied bracket has exactly one
\* line item, a Shielded one whose amount is the occupied width, and the
\* result holds no Taxed item at all.
C4_FullShield ==
    taxable_income <= 0 =>
        /\ \A i \in BracketIdx :
              Occupied(BRACKETS[i]) > 0 =>
                  ItemsOf(BRACKETS[i]) =
                      <<[Floor |-> BRACKETS[i].Floor,
                         Amount |-> Occupied(BRACKETS[i]),
                         Status |-> "Shielded"]>>
        /\ \A n \in 1..Len(building_data) : building_data[n].Status # "Taxed"

\* taxable income exactly 0 under a positive gross income, several brackets occupied
C4_Witness ==
    /\ taxable_income = 0
    /\ total_gross_income > 0
    /\ Len(building_data) >= 1
    /\ building_data[1].Status = "Shielded"

\* the taxable incomes the contribution widgets can produce under the
\* present gross income (none of them enters the gross income)
TaxableCandidates ==
    {calc_taxable_income([session_state EXCEPT !.lump_sum = l,
                                               !.biweekly_pct = p,
                                               !.employer_match = m]) :
        l \in InputDomain("lump_sum"),
        p \in InputDomain("biweekly_pct"),
        m \in InputDomain("employer_match")}

\* C5: with the gross income and the table fixed, a taxable income that is
\* larger never has a larger Shielded total nor a smaller Taxed total.
C5_Monotone ==
    \A t \in TaxableCandidates :
        LET other == build_building_data(total_gross_income, t)
        IN  /\ t >= taxable_income =>
                  /\ TotalOf(other, "Shielded") <= TotalOf(building_data, "Shielded")
                  /\ TotalOf(other, "Taxed") >= TotalOf(building_data, "Taxed")
            /\ t <= taxable_income =>
                  /\ TotalOf(other, "Shielded") >= TotalOf(building_data, "Shielded")
                  /\ TotalOf(other, "Taxed") <= TotalOf(building_data, "Taxed")

\* a larger taxable income strictly lowers the Shielded total and raises the Taxed total
C5_Witness ==
    \E t \in TaxableCandidates :
        /\ t > taxable_income
        /\ TotalOf(build_building_data(total_gross_income, t), "Shielded")
              < TotalOf(building_data, "Shielded")
        /\ TotalOf(build_building_data(total_gross_income, t), "Taxed")
              > TotalOf(building_data, "Taxed")
        /\ TotalOf(building_data, "Taxed") > 0

\* C6: a bracket whose occupied width is <= 0 has no line item, so a bracket
\* whose lower bound is >= the gross income never appears, and a gross income
\* of 0 gives the empty result whatever the taxable income.
C6_Omission ==
    /\ \A i \in BracketIdx :
          /\ Occupied(BRACKETS[i]) <= 0 => ItemsOf(BRACKETS[i]) = <<>>
          /\ BRACKETS[i].low >= total_gross_income => ItemsOf(BRACKETS[i]) = <<>>
    /\ total_gross_income = 0 => building_data = <<>>

\* a bracket of width 0 (the gross income sits on its lower bound) below the
\* taxable-income line, next to occupied brackets
C6_Witness ==
    /\ total_gross_income > 0
    /\ building_data # <<>>
    /\ \E i \in BracketIdx :
          /\ Occupied(BRACKETS[i]) = 0
          /\ taxable_income > BRACKETS[i].low

\* C7: an occupied bracket has a Shielded item iff shielded > 0 and a Taxed
\* item iff taxed > 0; every amount is > 0; a bracket has at most two items,
\* the Shielded one first; items follow the order of the table.
C7_Emission ==
    /\ \A i \in BracketIdx :
          Occupied(BRACKETS[i]) > 0 =>
              /\ Has(BRACKETS[i], "Shielded") <=> ContractShielded(BRACKETS[i]) > 0
              /\ Has(BRACKETS[i], "Taxed") <=> ContractTaxed(BRACKETS[i]) > 0
              /\ Len(ItemsOf(BRACKETS[i])) <= 2
              /\ Len(ItemsOf(BRACKETS[i])) = 2 =>
                    /\ ItemsOf(BRACKETS[i])[1].Status = "Shielded"
                    /\ ItemsOf(BRACKETS[i])[2].Status = "Taxed"
    /\ \A n \in 1..Len(building_data) :
          /\ building_data[n].Amount > 0
          /\ building_data[n].Status \in {"Shielded", "Taxed"}
          /\ \E i \in BracketIdx : BRACKETS[i].Floor = building_data[n].Floor
    /\ \A m, n \in 1..Len(building_data) :
          m < n => FloorIdx(building_data[m]) <= FloorIdx(building_data[n])

\* one bracket with both items, among several occupied brackets
C7_Witness ==
    /\ Len(building_data) >= 3
    /\ \E i \in BracketIdx : Len(ItemsOf(BRACKETS[i])) = 2

\* C9: a bracket with a Shielded item is followed by no bracket with a Taxed
\* item; over the occupied brackets the Taxed items form a prefix and the
\* Shielded items a suffix; at most one bracket has both.
C9_TopDown ==
    /\ \A i, j \in BracketIdx :
          (i < j /\ Has(BRACKETS[i], "Shielded")) => ~Has(BRACKETS[j], "Taxed")
    /\ \A i, j \in BracketIdx :
          (i < j /\ Occupied(BRACKETS[i]) > 0 /\ Occupied(BRACKETS[j]) > 0) =>
              /\ Has(BRACKETS[j], "Taxed") => Has(BRACKETS[i], "Taxed")
              /\ Has(BRACKETS[i], "Shielded") => Has(BRACKETS[j], "Shielded")
    /\ Cardinality({i \in BracketIdx :
                       Has(BRACKETS[i], "Shielded") /\ Has(BRACKETS[i], "Taxed")}) <= 1

\* Taxed-only brackets, then one bracket with both items, then a Shielded-only bracket
C9_Witness ==
    \E i, j, k \in BracketIdx :
        /\ i < j /\ j < k
        /\ Has(BRACKETS[i], "Taxed") /\ ~Has(BRACKETS[i], "Shielded")
        /\ Has(BRACKETS[j], "Taxed") /\ Has(BRACKETS[j], "Shielded")
        /\ Has(BRACKETS[k], "Shielded") /\ ~Has(BRACKETS[k], "Taxed")

----------------------------------------------------------------------------
(* The projection simulator *)

\* C8: for a horizon >= 0 the projection returns exactly horizonYears + 1
\* states, indexed year 0 to year horizonYears, and the year-0 state carries
\* the starting balances unmodified.
C8_ProjectionLength ==
    proj_pc = "done" =>
        /\ Len(proj_series) = proj_params.horizonYears + 1
        /\ \A n \in 1..Len(proj_series) : proj_series[n].year = n - 1
        /\ proj_series[1].balanceA = proj_params.startingBalanceA
        /\ proj_series[1].balanceB = proj_params.startingBalanceB

\* a finished projection over several years of growing balances
C8_Witness ==
    /\ proj_pc = "done"
    /\ proj_params.horizonYears >= 2
    /\ proj_params.growthPct > 0
    /\ proj_params.startingBalanceA > 0
    /\ proj_series[Len(proj_series)].balanceA > proj_params.startingBalanceA

----------------------------------------------------------------------------
(* The persistence engine *)

\* C10 (as claimed): after any sequence of Save Inputs, Reset and app starts,
\* load_from_file returns the mapping of the most recent save_to_file call
\* that returned True if no Reset followed it, and {} otherwise; a call that
\* returned False changes nothing a later load returns.
C10_RoundTrip == load_from_file(file) = last_good

====
